---- MODULE Spec2Model ----
(***************************************************************************)
(* Model of assignment-1/producer_consumer.py: class ProducerConsumer.     *)
(* One producer thread copies source_container into a bounded              *)
(* queue.Queue, one consumer thread drains the queue into                  *)
(* destination_container, and the main thread runs start() followed by     *)
(* wait_completion().  Every statement of the three threads that touches   *)
(* shared state is one action; the queue operations (put, get, task_done,  *)
(* join) are atomic, as the library performs them under the queue's mutex. *)
(***************************************************************************)
EXTENDS Integers, Sequences, FiniteSets, TLC

\* Longest source list explored.
MaxLen == 3

\* Largest max_queue_size explored.
MaxCapacity == 2

\* Python's None: the value the producer enqueues as the sentinel.
None == "None"

\* Ordinary list elements.
Items == {"A", "B"}

\* Anything a Python list handed to the constructor may hold.
Values == Items \cup {None}

\* The lists handed to ProducerConsumer(source_data, ...).
SourceData == UNION {[1..n -> Values] : n \in 0..MaxLen}

\* The max_queue_size arguments; the constructor accepts any integer.
Capacities == -1..MaxCapacity

VARIABLES
    source_container,       \* self.source_container
    max_queue_size,         \* maxsize of self.shared_queue
    destination_container,  \* self.destination_container
    shared_queue,           \* the values buffered in self.shared_queue
    unfinished_tasks,       \* self.shared_queue.unfinished_tasks
    lock,                   \* holder of self.lock: "free", "producer", "consumer"
    items_produced,         \* self.items_produced
    items_consumed,         \* self.items_consumed
    main_pc,                \* position of the thread that calls start() and wait_completion()
    producer_pc,            \* position of ProducerThread
    consumer_pc,            \* position of ConsumerThread
    producer_idx,           \* number of source elements the for loop has taken
    producer_item,          \* local `item` of producer()
    consumer_item,          \* local `item` of consumer()
    data_integrity,         \* the verdict print_statistics() printed: "none" until then
    analyzer_df,            \* self._df of a SalesAnalyzer (assignment-2), <<>> when there is none
    filter_call,            \* the filter method last called on it, with its arguments
    filtered_df,            \* _df of the SalesAnalyzer that call returned, <<>> when none
    filter_result           \* outcome of that call: "none", "returned" or "ValueError"

vars == <<source_container, max_queue_size, destination_container, shared_queue,
          unfinished_tasks, lock, items_produced, items_consumed, main_pc,
          producer_pc, consumer_pc, producer_idx, producer_item, consumer_item,
          data_integrity, analyzer_df, filter_call, filtered_df, filter_result>>

\* The state of the SalesAnalyzer part.
analyzer_vars == <<analyzer_df, filter_call, filtered_df, filter_result>>

\* The state of the ProducerConsumer part.
pipeline_vars ==
    <<source_container, max_queue_size, destination_container, shared_queue,
      unfinished_tasks, lock, items_produced, items_consumed, main_pc,
      producer_pc, consumer_pc, producer_idx, producer_item, consumer_item,
      data_integrity>>

(***************************************************************************)
(* queue.Queue as the program uses it.                                     *)
(***************************************************************************)

\* Mutant: the bound is tested after the insertion instead of before.
FullOffByOne(q, maxsize) == maxsize > 0 /\ Len(q) > maxsize

\* Queue.full: a maxsize <= 0 means the queue is unbounded.
Full(q, maxsize) == maxsize > 0 /\ Len(q) >= maxsize

\* Queue._put: append at the tail.
QueuePut(q, x) == Append(q, x)

\* Mutant: a LifoQueue hands out the value put last.
QueueGetLifo(q) == <<q[Len(q)], SubSeq(q, 1, Len(q) - 1)>>

\* Queue._get: <<value at the head, remaining queue>>.
QueueGet(q) == <<Head(q), Tail(q)>>

\* Thread.join() returns once the thread's function has returned or has been
\* left by an uncaught exception.
Terminated(pc) == pc \in {"done", "aborted"}

\* print_statistics(): the 'Data Integrity' verdict.
DataIntegrity(source, destination) ==
    IF source = destination THEN "PASS" ELSE "FAIL"

(***************************************************************************)
(* Construction: ProducerConsumer(source_data, max_queue_size).            *)
(***************************************************************************)
Init ==
    /\ source_container \in SourceData
    /\ max_queue_size \in Capacities
    /\ destination_container = <<>>
    /\ shared_queue = <<>>
    /\ unfinished_tasks = 0
    /\ lock = "free"
    /\ items_produced = 0
    /\ items_consumed = 0
    /\ main_pc = "start"
    /\ producer_pc = "unstarted"
    /\ consumer_pc = "unstarted"
    /\ producer_idx = 0
    /\ producer_item = None
    /\ consumer_item = None
    /\ data_integrity = "none"
    /\ analyzer_df = <<>>
    /\ filter_call = [method |-> "none"]
    /\ filtered_df = <<>>
    /\ filter_result = "none"

(***************************************************************************)
(* The main thread: start() then wait_completion().                        *)
(***************************************************************************)

\* start(): both Thread objects are created and consumer_thread.start() runs.
M_start_consumer ==
    /\ main_pc = "start"
    /\ consumer_pc' = "get"
    /\ main_pc' = "start_producer"
    /\ UNCHANGED <<analyzer_vars, data_integrity, source_container, max_queue_size, destination_container,
                   shared_queue, unfinished_tasks, lock, items_produced,
                   items_consumed, producer_pc, producer_idx, producer_item,
                   consumer_item>>

\* start(): producer_thread.start().
M_start_producer ==
    /\ main_pc = "start_producer"
    /\ producer_pc' = "for"
    /\ main_pc' = "join_producer"
    /\ UNCHANGED <<analyzer_vars, data_integrity, source_container, max_queue_size, destination_container,
                   shared_queue, unfinished_tasks, lock, items_produced,
                   items_consumed, consumer_pc, producer_idx, producer_item,
                   consumer_item>>

\* wait_completion(): self.producer_thread.join().
M_join_producer ==
    /\ main_pc = "join_producer"
    /\ Terminated(producer_pc)
    /\ main_pc' = "join_consumer"
    /\ UNCHANGED <<analyzer_vars, data_integrity, source_container, max_queue_size, destination_container,
                   shared_queue, unfinished_tasks, lock, items_produced,
                   items_consumed, producer_pc, consumer_pc, producer_idx,
                   producer_item, consumer_item>>

\* wait_completion(): self.consumer_thread.join().
M_join_consumer ==
    /\ main_pc = "join_consumer"
    /\ Terminated(consumer_pc)
    /\ main_pc' = "queue_join"
    /\ UNCHANGED <<analyzer_vars, data_integrity, source_container, max_queue_size, destination_container,
                   shared_queue, unfinished_tasks, lock, items_produced,
                   items_consumed, producer_pc, consumer_pc, producer_idx,
                   producer_item, consumer_item>>

\* wait_completion(): self.shared_queue.join(), then print_statistics() and return.
M_queue_join ==
    /\ main_pc = "queue_join"
    /\ unfinished_tasks = 0
    /\ data_integrity' = DataIntegrity(source_container, destination_container)
    /\ main_pc' = "returned"
    /\ UNCHANGED <<analyzer_vars, source_container, max_queue_size, destination_container,
                   shared_queue, unfinished_tasks, lock, items_produced,
                   items_consumed, producer_pc, consumer_pc, producer_idx,
                   producer_item, consumer_item>>

Main == M_start_consumer \/ M_start_producer \/ M_join_producer
            \/ M_join_consumer \/ M_queue_join

(***************************************************************************)
(* ProducerThread: producer().                                             *)
(***************************************************************************)

\* Mutant: the loop consumes the source list (pop(0)) instead of iterating it.
P_for_pop ==
    /\ producer_pc = "for"
    /\ IF source_container # <<>>
       THEN /\ producer_item' = Head(source_container)
            /\ source_container' = Tail(source_container)
            /\ producer_idx' = producer_idx + 1
            /\ producer_pc' = "put"
       ELSE /\ producer_pc' = "sentinel"
            /\ UNCHANGED <<producer_item, producer_idx, source_container>>
    /\ UNCHANGED <<analyzer_vars, data_integrity, max_queue_size, destination_container,
                   shared_queue, unfinished_tasks, lock, items_produced,
                   items_consumed, main_pc, consumer_pc, consumer_item>>

\* for item in self.source_container: take the next element, or leave the loop.
P_for ==
    /\ producer_pc = "for"
    /\ IF producer_idx < Len(source_container)
       THEN /\ producer_item' = source_container[producer_idx + 1]
            /\ producer_idx' = producer_idx + 1
            /\ producer_pc' = "put"
       ELSE /\ producer_pc' = "sentinel"
            /\ UNCHANGED <<producer_item, producer_idx>>
    /\ UNCHANGED <<analyzer_vars, data_integrity, source_container, max_queue_size, destination_container,
                   shared_queue, unfinished_tasks, lock, items_produced,
                   items_consumed, main_pc, consumer_pc, consumer_item>>

\* Mutant: a put on a full queue gives up and drops the item instead of blocking.
P_put_drop_when_full ==
    /\ producer_pc = "put"
    /\ IF Full(shared_queue, max_queue_size)
       THEN UNCHANGED <<shared_queue, unfinished_tasks>>
       ELSE /\ shared_queue' = QueuePut(shared_queue, producer_item)
            /\ unfinished_tasks' = unfinished_tasks + 1
    /\ producer_pc' = "acquire"
    /\ UNCHANGED <<analyzer_vars, data_integrity, source_container, max_queue_size,
                   destination_container, lock, items_produced, items_consumed,
                   main_pc, consumer_pc, producer_idx, producer_item,
                   consumer_item>>

\* self.shared_queue.put(item): blocks while the queue is full.
P_put ==
    /\ producer_pc = "put"
    /\ ~Full(shared_queue, max_queue_size)
    /\ shared_queue' = QueuePut(shared_queue, producer_item)
    /\ unfinished_tasks' = unfinished_tasks + 1
    /\ producer_pc' = "acquire"
    /\ UNCHANGED <<analyzer_vars, data_integrity, source_container, max_queue_size, destination_container,
                   lock, items_produced, items_consumed, main_pc, consumer_pc,
                   producer_idx, producer_item, consumer_item>>

\* Mutant: the producer enters its critical section without waiting for the lock.
P_acquire_unguarded ==
    /\ producer_pc = "acquire"
    /\ lock' = "producer"
    /\ producer_pc' = "incr"
    /\ UNCHANGED <<analyzer_vars, data_integrity, source_container, max_queue_size,
                   destination_container, shared_queue, unfinished_tasks,
                   items_produced, items_consumed, main_pc, consumer_pc,
                   producer_idx, producer_item, consumer_item>>

\* with self.lock: entry.
P_acquire ==
    /\ producer_pc = "acquire"
    /\ lock = "free"
    /\ lock' = "producer"
    /\ producer_pc' = "incr"
    /\ UNCHANGED <<analyzer_vars, data_integrity, source_container, max_queue_size, destination_container,
                   shared_queue, unfinished_tasks, items_produced,
                   items_consumed, main_pc, consumer_pc, producer_idx,
                   producer_item, consumer_item>>

\* self.items_produced += 1 (the print that follows changes nothing).
P_incr ==
    /\ producer_pc = "incr"
    /\ items_produced' = items_produced + 1
    /\ producer_pc' = "release"
    /\ UNCHANGED <<analyzer_vars, data_integrity, source_container, max_queue_size, destination_container,
                   shared_queue, unfinished_tasks, lock, items_consumed,
                   main_pc, consumer_pc, producer_idx, producer_item,
                   consumer_item>>

\* Mutant: the lock is acquired by hand and never released.
P_release_keep ==
    /\ producer_pc = "release"
    /\ lock' = lock
    /\ producer_pc' = "for"
    /\ UNCHANGED <<analyzer_vars, data_integrity, source_container, max_queue_size,
                   destination_container, shared_queue, unfinished_tasks,
                   items_produced, items_consumed, main_pc, consumer_pc,
                   producer_idx, producer_item, consumer_item>>

\* with self.lock: exit; back to the head of the for loop.
P_release ==
    /\ producer_pc = "release"
    /\ lock' = "free"
    /\ producer_pc' = "for"
    /\ UNCHANGED <<analyzer_vars, data_integrity, source_container, max_queue_size, destination_container,
                   shared_queue, unfinished_tasks, items_produced,
                   items_consumed, main_pc, consumer_pc, producer_idx,
                   producer_item, consumer_item>>

\* Mutant: the sentinel is counted as a produced item.
P_sentinel_counted ==
    /\ producer_pc = "sentinel"
    /\ ~Full(shared_queue, max_queue_size)
    /\ shared_queue' = QueuePut(shared_queue, None)
    /\ unfinished_tasks' = unfinished_tasks + 1
    /\ items_produced' = items_produced + 1
    /\ producer_pc' = "done"
    /\ UNCHANGED <<analyzer_vars, data_integrity, source_container, max_queue_size, destination_container,
                   lock, items_consumed, main_pc, consumer_pc,
                   producer_idx, producer_item, consumer_item>>

\* self.shared_queue.put(None) after the loop; the thread then ends.
P_sentinel ==
    /\ producer_pc = "sentinel"
    /\ ~Full(shared_queue, max_queue_size)
    /\ shared_queue' = QueuePut(shared_queue, None)
    /\ unfinished_tasks' = unfinished_tasks + 1
    /\ producer_pc' = "done"
    /\ UNCHANGED <<analyzer_vars, data_integrity, source_container, max_queue_size, destination_container,
                   lock, items_produced, items_consumed, main_pc, consumer_pc,
                   producer_idx, producer_item, consumer_item>>

Producer == P_for \/ P_put \/ P_acquire \/ P_incr \/ P_release \/ P_sentinel

(***************************************************************************)
(* ConsumerThread: consumer().                                             *)
(***************************************************************************)

\* Mutant: the value is acknowledged as soon as it is dequeued.
C_get_ack ==
    /\ consumer_pc = "get"
    /\ shared_queue # <<>>
    /\ consumer_item' = QueueGet(shared_queue)[1]
    /\ shared_queue' = QueueGet(shared_queue)[2]
    /\ unfinished_tasks' = unfinished_tasks - 1
    /\ consumer_pc' = "check"
    /\ UNCHANGED <<analyzer_vars, data_integrity, source_container, max_queue_size, destination_container,
                   lock, items_produced, items_consumed,
                   main_pc, producer_pc, producer_idx, producer_item>>

\* item = self.shared_queue.get(): blocks while the queue is empty.
C_get ==
    /\ consumer_pc = "get"
    /\ shared_queue # <<>>
    /\ consumer_item' = QueueGet(shared_queue)[1]
    /\ shared_queue' = QueueGet(shared_queue)[2]
    /\ consumer_pc' = "check"
    /\ UNCHANGED <<analyzer_vars, data_integrity, source_container, max_queue_size, destination_container,
                   unfinished_tasks, lock, items_produced, items_consumed,
                   main_pc, producer_pc, producer_idx, producer_item>>

\* Mutant: the test for the sentinel is missing, every value is stored.
C_check_unchecked ==
    /\ consumer_pc = "check"
    /\ consumer_pc' = "acquire"
    /\ UNCHANGED <<analyzer_vars, data_integrity, source_container, max_queue_size,
                   destination_container, shared_queue, unfinished_tasks, lock,
                   items_produced, items_consumed, main_pc, producer_pc,
                   producer_idx, producer_item, consumer_item>>

\* Mutant: the test is `if not item`, which also stops on a falsy item (here "B").
C_check_falsy ==
    /\ consumer_pc = "check"
    /\ consumer_pc' = IF consumer_item \in {None, "B"} THEN "sentinel_done"
                                                       ELSE "acquire"
    /\ UNCHANGED <<analyzer_vars, data_integrity, source_container, max_queue_size,
                   destination_container, shared_queue, unfinished_tasks, lock,
                   items_produced, items_consumed, main_pc, producer_pc,
                   producer_idx, producer_item, consumer_item>>

\* if item is None: ...
C_check ==
    /\ consumer_pc = "check"
    /\ consumer_pc' = IF consumer_item = None THEN "sentinel_done" ELSE "acquire"
    /\ UNCHANGED <<analyzer_vars, data_integrity, source_container, max_queue_size, destination_container,
                   shared_queue, unfinished_tasks, lock, items_produced,
                   items_consumed, main_pc, producer_pc, producer_idx,
                   producer_item, consumer_item>>

\* Mutant: the sentinel branch breaks without task_done().
C_sentinel_done_noack ==
    /\ consumer_pc = "sentinel_done"
    /\ consumer_pc' = "done"
    /\ UNCHANGED <<analyzer_vars, data_integrity, source_container, max_queue_size,
                   destination_container, shared_queue, unfinished_tasks, lock,
                   items_produced, items_consumed, main_pc, producer_pc,
                   producer_idx, producer_item, consumer_item>>

\* Mutant: the sentinel branch lacks its break and the loop goes on.
C_sentinel_done_nobreak ==
    /\ consumer_pc = "sentinel_done"
    /\ unfinished_tasks' = unfinished_tasks - 1
    /\ consumer_pc' = "get"
    /\ UNCHANGED <<analyzer_vars, data_integrity, source_container, max_queue_size,
                   destination_container, shared_queue, lock, items_produced,
                   items_consumed, main_pc, producer_pc, producer_idx,
                   producer_item, consumer_item>>

\* The sentinel branch: self.shared_queue.task_done(); break; the thread ends.
C_sentinel_done ==
    /\ consumer_pc = "sentinel_done"
    /\ unfinished_tasks' = unfinished_tasks - 1
    /\ consumer_pc' = "done"
    /\ UNCHANGED <<analyzer_vars, data_integrity, source_container, max_queue_size, destination_container,
                   shared_queue, lock, items_produced, items_consumed, main_pc,
                   producer_pc, producer_idx, producer_item, consumer_item>>

\* Mutant: the consumer's `with self.lock` is missing.
C_acquire_nolock ==
    /\ consumer_pc = "acquire"
    /\ lock' = lock
    /\ consumer_pc' = "append"
    /\ UNCHANGED <<analyzer_vars, data_integrity, source_container, max_queue_size,
                   destination_container, shared_queue, unfinished_tasks,
                   items_produced, items_consumed, main_pc, producer_pc,
                   producer_idx, producer_item, consumer_item>>

\* with self.lock: entry.
C_acquire ==
    /\ consumer_pc = "acquire"
    /\ lock = "free"
    /\ lock' = "consumer"
    /\ consumer_pc' = "append"
    /\ UNCHANGED <<analyzer_vars, data_integrity, source_container, max_queue_size, destination_container,
                   shared_queue, unfinished_tasks, items_produced,
                   items_consumed, main_pc, producer_pc, producer_idx,
                   producer_item, consumer_item>>

\* Mutant: the item is inserted at the front of the list.
C_append_front ==
    /\ consumer_pc = "append"
    /\ destination_container' = <<consumer_item>> \o destination_container
    /\ consumer_pc' = "incr"
    /\ UNCHANGED <<analyzer_vars, data_integrity, source_container, max_queue_size, shared_queue,
                   unfinished_tasks, lock, items_produced, items_consumed,
                   main_pc, producer_pc, producer_idx, producer_item,
                   consumer_item>>

\* Mutant: an item equal to one already stored is not stored again.
C_append_dedupe ==
    /\ consumer_pc = "append"
    /\ destination_container' =
           IF \E i \in 1..Len(destination_container) :
                  destination_container[i] = consumer_item
           THEN destination_container
           ELSE Append(destination_container, consumer_item)
    /\ consumer_pc' = "incr"
    /\ UNCHANGED <<analyzer_vars, data_integrity, source_container, max_queue_size, shared_queue,
                   unfinished_tasks, lock, items_produced, items_consumed,
                   main_pc, producer_pc, producer_idx, producer_item,
                   consumer_item>>

\* self.destination_container.append(item)
C_append ==
    /\ consumer_pc = "append"
    /\ destination_container' = Append(destination_container, consumer_item)
    /\ consumer_pc' = "incr"
    /\ UNCHANGED <<analyzer_vars, data_integrity, source_container, max_queue_size, shared_queue,
                   unfinished_tasks, lock, items_produced, items_consumed,
                   main_pc, producer_pc, producer_idx, producer_item,
                   consumer_item>>

\* self.items_consumed += 1 (the print that follows changes nothing).
C_incr ==
    /\ consumer_pc = "incr"
    /\ items_consumed' = items_consumed + 1
    /\ consumer_pc' = "release"
    /\ UNCHANGED <<analyzer_vars, data_integrity, source_container, max_queue_size, destination_container,
                   shared_queue, unfinished_tasks, lock, items_produced,
                   main_pc, producer_pc, producer_idx, producer_item,
                   consumer_item>>

\* with self.lock: exit.
C_release ==
    /\ consumer_pc = "release"
    /\ lock' = "free"
    /\ consumer_pc' = "task_done"
    /\ UNCHANGED <<analyzer_vars, data_integrity, source_container, max_queue_size, destination_container,
                   shared_queue, unfinished_tasks, items_produced,
                   items_consumed, main_pc, producer_pc, producer_idx,
                   producer_item, consumer_item>>

\* self.shared_queue.task_done() for a real item; back to the head of the loop.
C_task_done ==
    /\ consumer_pc = "task_done"
    /\ unfinished_tasks' = unfinished_tasks - 1
    /\ consumer_pc' = "get"
    /\ UNCHANGED <<analyzer_vars, data_integrity, source_container, max_queue_size, destination_container,
                   shared_queue, lock, items_produced, items_consumed, main_pc,
                   producer_pc, producer_idx, producer_item, consumer_item>>

Consumer == C_get \/ C_check \/ C_sentinel_done \/ C_acquire \/ C_append
                \/ C_incr \/ C_release \/ C_task_done

Next == Main \/ Producer \/ Consumer

Spec == Init /\ [][Next]_vars

\* The three threads are operating-system threads: one that can keep taking
\* steps is eventually scheduled.
FairSpec == Spec /\ WF_vars(Main) /\ WF_vars(Producer) /\ WF_vars(Consumer)

(***************************************************************************)
(* A worker that dies.  Neither producer() nor consumer() catches anything, *)
(* so an exception raised by one of their statements ends the thread.  The  *)
(* statements that can raise are the prints (a closed or broken stdout):    *)
(* before the loop, inside `with self.lock` (which then releases the lock)  *)
(* and, in the consumer, in the sentinel branch before task_done().         *)
(***************************************************************************)

\* producer() is left by an exception of the print before its loop or of the
\* print under the lock.
P_abort ==
    /\ \/ producer_pc = "for" /\ producer_idx = 0
       \/ producer_pc = "release"
    /\ producer_pc' = "aborted"
    /\ lock' = IF lock = "producer" THEN "free" ELSE lock
    /\ UNCHANGED <<analyzer_vars, data_integrity, source_container, max_queue_size,
                   destination_container, shared_queue, unfinished_tasks,
                   items_produced, items_consumed, main_pc, consumer_pc,
                   producer_idx, producer_item, consumer_item>>

\* consumer() is left by an exception of the print before its loop, of the
\* print under the lock or of the print in the sentinel branch.
C_abort ==
    /\ \/ consumer_pc = "get" /\ destination_container = <<>>
       \/ consumer_pc = "release"
       \/ consumer_pc = "sentinel_done"
    /\ consumer_pc' = "aborted"
    /\ lock' = IF lock = "consumer" THEN "free" ELSE lock
    /\ UNCHANGED <<analyzer_vars, data_integrity, source_container, max_queue_size,
                   destination_container, shared_queue, unfinished_tasks,
                   items_produced, items_consumed, main_pc, producer_pc,
                   producer_idx, producer_item, consumer_item>>

CrashNext == Next \/ P_abort \/ C_abort

\* The program with workers that may die.
CrashSpec == Init /\ [][CrashNext]_vars

(***************************************************************************)
(* print_statistics() as a function of the fields it reads.  It is a public *)
(* method over public attributes, and its verdict exists to expose a run    *)
(* that went wrong, so the fields are drawn independently of each other:    *)
(* the object as wait_completion() finds it when both threads have ended    *)
(* and the queue is drained, whatever the run left in the containers and    *)
(* the counters.                                                            *)
(***************************************************************************)
ReportInit ==
    /\ source_container \in SourceData
    /\ destination_container \in SourceData
    /\ items_produced \in 0..MaxLen
    /\ items_consumed \in 0..MaxLen
    /\ max_queue_size \in Capacities
    /\ shared_queue = <<>>
    /\ unfinished_tasks = 0
    /\ lock = "free"
    /\ main_pc = "queue_join"
    /\ producer_pc = "done"
    /\ consumer_pc = "done"
    /\ producer_idx = Len(source_container)
    /\ producer_item = None
    /\ consumer_item = None
    /\ data_integrity = "none"
    /\ analyzer_df = <<>>
    /\ filter_call = [method |-> "none"]
    /\ filtered_df = <<>>
    /\ filter_result = "none"

\* The tail of wait_completion() on such an object.
ReportSpec == ReportInit /\ [][M_queue_join]_vars

(***************************************************************************)
(* SalesAnalyzer (assignment-2): the filter methods.  A DataFrame is a     *)
(* sequence of rows, a row a record of its columns, and df[mask].copy()    *)
(* is SelectSeq(df, mask).  Dates are day numbers, discounts are in        *)
(* percent so that the amounts stay integers.                              *)
(***************************************************************************)

\* Most rows an analyzed DataFrame has.
MaxRows == 2

Categories == {"Electronics", "Furniture"}
Regions    == {"North", "South"}
Dates      == {1, 2}
Quantities == {1, 2}
UnitPrices == {100}
Discounts  == {10}

\* The rows of a loaded DataFrame, before the computed columns.
RawRows ==
    [category : Categories, region : Regions, date : Dates,
     quantity : Quantities, unit_price : UnitPrices, discount : Discounts]

\* The DataFrames the caller can hand to SalesAnalyzer(), the empty one too.
DataFrames == UNION {[1..n -> RawRows] : n \in 0..MaxRows}

\* str.lower() on the strings that occur as column values and arguments.
Lower(str) ==
    CASE str = "Electronics" -> "electronics"
      [] str = "Furniture"   -> "furniture"
      [] str = "NonExistent" -> "nonexistent"
      [] str = "North"       -> "north"
      [] str = "South"       -> "south"
      [] str = "West"        -> "west"
      [] OTHER               -> str

\* The arguments the filter methods are called with.
CategoryArgs  == {"electronics", "NonExistent"}
RegionArgs    == {"north", "West"}
MinAmountArgs == {100, 250}
PredicateArgs == {"bulk", "discounted"}

\* The lambdas handed to filter_by_predicate, applied to one row.
Predicate(predicate, row) ==
    CASE predicate = "bulk"       -> row.quantity >= 2
      [] predicate = "discounted" -> row.discount > 0

\* _add_computed_columns() on one row: gross, discount and net amount.
ComputedRow(row) ==
    LET gross_amount    == row.quantity * row.unit_price
        discount_amount == (gross_amount * row.discount) \div 100
    IN  [category |-> row.category, region |-> row.region, date |-> row.date,
         quantity |-> row.quantity, unit_price |-> row.unit_price,
         discount |-> row.discount,
         gross_amount |-> gross_amount, discount_amount |-> discount_amount,
         net_amount |-> gross_amount - discount_amount]

\* _add_computed_columns() on the whole frame.
AddComputedColumns(df) == [i \in 1..Len(df) |-> ComputedRow(df[i])]

\* SalesAnalyzer(filtered_df): raises ValueError on an empty frame, else
\* the new analyzer holds a copy of it with the computed columns.
NewAnalyzer(df) ==
    IF df = <<>>
    THEN /\ filter_result' = "ValueError"
         /\ filtered_df' = <<>>
    ELSE /\ filter_result' = "returned"
         /\ filtered_df' = AddComputedColumns(df)

\* A variant of filter_by_category that filters its own frame in place.
filter_by_category_inplace ==
    \E category \in CategoryArgs :
        LET mask(row) == Lower(row.category) = Lower(category)
        IN  /\ filter_call' = [method |-> "filter_by_category", category |-> category]
            /\ analyzer_df' = SelectSeq(analyzer_df, mask)
            /\ NewAnalyzer(SelectSeq(analyzer_df, mask))
            /\ UNCHANGED pipeline_vars

\* filter_by_category(category): case-insensitive match on the category.
filter_by_category ==
    \E category \in CategoryArgs :
        LET mask(row) == Lower(row.category) = Lower(category)
        IN  /\ filter_call' = [method |-> "filter_by_category", category |-> category]
            /\ NewAnalyzer(SelectSeq(analyzer_df, mask))
            /\ UNCHANGED <<analyzer_df, pipeline_vars>>

\* filter_by_region(region): case-insensitive match on the region.
filter_by_region ==
    \E region \in RegionArgs :
        LET mask(row) == Lower(row.region) = Lower(region)
        IN  /\ filter_call' = [method |-> "filter_by_region", region |-> region]
            /\ NewAnalyzer(SelectSeq(analyzer_df, mask))
            /\ UNCHANGED <<analyzer_df, pipeline_vars>>

\* filter_by_date_range(start_date, end_date): both ends inclusive.
filter_by_date_range ==
    \E start_date \in Dates, end_date \in Dates :
        LET mask(row) == row.date >= start_date /\ row.date <= end_date
        IN  /\ filter_call' = [method |-> "filter_by_date_range",
                               start_date |-> start_date, end_date |-> end_date]
            /\ NewAnalyzer(SelectSeq(analyzer_df, mask))
            /\ UNCHANGED <<analyzer_df, pipeline_vars>>

\* filter_by_min_amount(min_amount): rows whose net amount reaches it.
filter_by_min_amount ==
    \E min_amount \in MinAmountArgs :
        LET mask(row) == row.net_amount >= min_amount
        IN  /\ filter_call' = [method |-> "filter_by_min_amount",
                               min_amount |-> min_amount]
            /\ NewAnalyzer(SelectSeq(analyzer_df, mask))
            /\ UNCHANGED <<analyzer_df, pipeline_vars>>

\* filter_by_predicate(predicate): rows the caller's lambda accepts.
filter_by_predicate ==
    \E predicate \in PredicateArgs :
        LET mask(row) == Predicate(predicate, row)
        IN  /\ filter_call' = [method |-> "filter_by_predicate",
                               predicate |-> predicate]
            /\ NewAnalyzer(SelectSeq(analyzer_df, mask))
            /\ UNCHANGED <<analyzer_df, pipeline_vars>>

\* After SalesAnalyzer(df) returned: the frame is not empty (the constructor
\* raises on an empty one) and carries the computed columns.  No pipeline
\* object is running.
AnalyzerInit ==
    /\ source_container = <<>>
    /\ max_queue_size = 1
    /\ destination_container = <<>>
    /\ shared_queue = <<>>
    /\ unfinished_tasks = 0
    /\ lock = "free"
    /\ items_produced = 0
    /\ items_consumed = 0
    /\ main_pc = "returned"
    /\ producer_pc = "done"
    /\ consumer_pc = "done"
    /\ producer_idx = 0
    /\ producer_item = None
    /\ consumer_item = None
    /\ data_integrity = "PASS"
    /\ analyzer_df \in {AddComputedColumns(df) : df \in DataFrames \ {<<>>}}
    /\ filter_call = [method |-> "none"]
    /\ filtered_df = <<>>
    /\ filter_result = "none"

AnalyzerNext ==
    \/ filter_by_category
    \/ filter_by_region
    \/ filter_by_date_range
    \/ filter_by_min_amount
    \/ filter_by_predicate

AnalyzerSpec == AnalyzerInit /\ [][AnalyzerNext]_vars

(***************************************************************************)
(* Helpers of the properties.                                              *)
(***************************************************************************)

\* s is an initial segment of t.
IsPrefix(s, t) == Len(s) <= Len(t) /\ \A i \in 1..Len(s) : s[i] = t[i]

\* Number of positions of s that hold v.
Count(s, v) == Cardinality({i \in 1..Len(s) : s[i] = v})

\* wait_completion() has returned.
Completed == main_pc = "returned"

\* The consumer has taken the `if item is None` branch.
ConsumerStopped == consumer_pc \in {"sentinel_done", "done"}

(***************************************************************************)
(* Properties.                                                             *)
(***************************************************************************)

\* C1: when wait_completion() has returned, destination_container equals
\* source_container element for element, whatever the capacity and the
\* interleaving of the threads.
OrderPreservation == Completed => destination_container = source_container

\* C1 witness: a completed run of two different items through a queue of one slot.
OrderPreservationWitness ==
    /\ Completed
    /\ max_queue_size = 1
    /\ Len(source_container) >= 2
    /\ source_container[1] # source_container[2]

\* C2: the consumer stops only on the sentinel the producer enqueues after its
\* loop (never on a source element, None included), so when it stops the
\* producer has finished and every source element is in the destination.
SentinelDistinct ==
    ConsumerStopped => (producer_pc = "done" /\ destination_container = source_container)

\* C3: no reachable state is a deadlock: until wait_completion() has returned
\* some thread can always take a step.
NoDeadlock == Completed \/ ENABLED Next

\* C4: with a capacity >= 1 the number of buffered values stays within
\* 0 .. max_queue_size.
BoundedBuffering ==
    max_queue_size >= 1 =>
        (0 <= Len(shared_queue) /\ Len(shared_queue) <= max_queue_size)

\* C4 witness: the producer waits in put on a full queue of two slots.
BoundedBufferingWitness ==
    /\ max_queue_size = 2
    /\ Len(shared_queue) = 2
    /\ producer_pc = "put"

\* C5: with a capacity <= 0 the run is rejected before any worker starts: no
\* thread runs and nothing is enqueued.
NonPositiveCapacityRejected ==
    max_queue_size <= 0 =>
        /\ producer_pc = "unstarted"
        /\ consumer_pc = "unstarted"
        /\ shared_queue = <<>>
        /\ unfinished_tasks = 0

\* A step that acknowledges a real item finds that item at the end of the
\* destination.
AckAfterAppend ==
    (unfinished_tasks' < unfinished_tasks /\ consumer_item' # None) =>
        /\ destination_container' # <<>>
        /\ destination_container'[Len(destination_container')] = consumer_item'

\* C6: wait_completion() does not return before the last source item is in the
\* destination, and a real item is acknowledged with task_done() only once it
\* has been appended.
DrainBarrier ==
    /\ [](Completed /\ source_container # <<>> =>
            /\ Len(destination_container) = Len(source_container)
            /\ destination_container[Len(destination_container)]
                   = source_container[Len(source_container)])
    /\ [][AckAfterAppend]_vars

\* C6 witness: the consumer is about to acknowledge an item it has appended,
\* while the main thread still waits.
DrainBarrierWitness ==
    /\ consumer_pc = "task_done"
    /\ main_pc = "join_producer"
    /\ unfinished_tasks >= 2
    /\ destination_container # <<>>

\* C7: the sentinel is enqueued once, after all real items, and it is the last
\* value the consumer dequeues: when the consumer stops, the producer has put
\* its sentinel and nothing is left in the queue.
SentinelSingularity ==
    /\ producer_pc \in {"sentinel", "done"} => producer_idx = Len(source_container)
    /\ ConsumerStopped => (producer_pc = "done" /\ shared_queue = <<>>)

\* C8: after wait_completion() has returned both counters equal the length of
\* the source.
CounterConvergence ==
    Completed =>
        /\ items_produced = Len(source_container)
        /\ items_consumed = Len(source_container)

\* C8 witness: a completed run that counted at least two items.
CounterConvergenceWitness ==
    /\ Completed
    /\ items_produced >= 2
    /\ items_consumed >= 2

\* A step leaves the destination alone or appends the next source element.
AppendsNextSourceElement ==
    \/ destination_container' = destination_container
    \/ /\ Len(destination_container) < Len(source_container)
       /\ destination_container' =
              Append(destination_container,
                     source_container[Len(destination_container) + 1])

\* C9: the destination is always a prefix of the source and grows only by the
\* next source element.
FifoPrefix ==
    /\ [](IsPrefix(destination_container, source_container))
    /\ [][AppendsNextSourceElement]_vars

\* C9 witness: mid-run, two different items are in the destination and a third
\* is still on its way.
FifoPrefixWitness ==
    /\ main_pc = "join_producer"
    /\ Len(destination_container) = 2
    /\ destination_container[1] # destination_container[2]
    /\ Len(source_container) = 3
    /\ consumer_pc # "done"

\* C10: after completion every value occurs in the destination as often as in
\* the source, and the lengths agree.
NoLossNoDuplication ==
    Completed =>
        /\ Len(destination_container) = Len(source_container)
        /\ \A v \in Values :
               Count(destination_container, v) = Count(source_container, v)

\* C10 witness: a completed run whose source holds the same value three times.
NoLossNoDuplicationWitness ==
    /\ Completed
    /\ Len(source_container) >= 3
    /\ source_container[1] = source_container[2]
    /\ source_container[2] = source_container[3]

\* The consumer holds a dequeued value it has not yet acknowledged.
ConsumerHoldsUnacknowledged ==
    consumer_pc \in {"check", "sentinel_done", "acquire", "append", "incr",
                     "release", "task_done"}

\* C11: unfinished_tasks is zero exactly when every value enqueued so far
\* (items and sentinel) has been dequeued and acknowledged: nothing is
\* buffered and the consumer holds nothing unacknowledged.
OutstandingWorkAccounting ==
    unfinished_tasks = 0 <=>
        (shared_queue = <<>> /\ ~ConsumerHoldsUnacknowledged)

\* C11 witness: mid-run the count is back at zero after an item was
\* acknowledged, with more of the source still to come.
OutstandingWorkAccountingWitness ==
    /\ unfinished_tasks = 0
    /\ destination_container # <<>>
    /\ consumer_pc = "get"
    /\ producer_pc # "done"

\* One of the workers has died.
WorkerAborted == producer_pc = "aborted" \/ consumer_pc = "aborted"

\* C12: when a worker has died the rest of the program is not stuck: either
\* wait_completion() has returned or some thread can still take a step.
PropagatedFailure == WorkerAborted => (Completed \/ ENABLED Next)

\* The consumer is in its loop (RUNNING) or has left it (DONE).
ConsumerRunning == consumer_pc \notin {"unstarted", "done", "aborted"}

\* A step into DONE is the sentinel branch: the value held is None and the step
\* acknowledges it.
DoneOnlyBySentinelAck ==
    (consumer_pc # "done" /\ consumer_pc' = "done") =>
        /\ consumer_pc = "sentinel_done"
        /\ consumer_item = None
        /\ unfinished_tasks' = unfinished_tasks - 1

\* The test of a dequeued value sends None, and nothing else, to the sentinel
\* branch, and that branch leads nowhere but to DONE.
SentinelLeadsToDone ==
    /\ (consumer_pc = "check" /\ consumer_pc' # "check") =>
           (consumer_pc' = "sentinel_done" <=> consumer_item = None)
    /\ (consumer_pc = "sentinel_done" /\ consumer_pc' # "sentinel_done") =>
           consumer_pc' = "done"

\* Once DONE the consumer dequeues, appends, counts and acknowledges nothing.
DoneIsTerminal ==
    consumer_pc = "done" =>
        /\ consumer_pc' = "done"
        /\ consumer_item' = consumer_item
        /\ destination_container' = destination_container
        /\ items_consumed' = items_consumed
        /\ Len(shared_queue') >= Len(shared_queue)
        /\ unfinished_tasks' >= unfinished_tasks

\* C13: the consumer starts RUNNING, becomes DONE only by dequeuing the
\* sentinel value, which it acknowledges in the same step that ends it, and
\* once DONE it never dequeues, appends or acknowledges again.
ConsumerStateMachine ==
    /\ [][(consumer_pc = "unstarted" /\ consumer_pc' # "unstarted")
             => (consumer_pc' = "get" /\ ConsumerRunning')]_vars
    /\ [][DoneOnlyBySentinelAck]_vars
    /\ [][SentinelLeadsToDone]_vars
    /\ [][DoneIsTerminal]_vars

\* C13 witness: the consumer is DONE after storing items while the main
\* thread has yet to join it.
ConsumerStateMachineWitness ==
    /\ consumer_pc = "done"
    /\ destination_container # <<>>
    /\ shared_queue = <<>>
    /\ main_pc = "join_consumer"

\* What the claim counts as a mismatch after a run.
ConsistencyMismatch ==
    \/ items_produced # items_consumed
    \/ Len(destination_container) # Len(source_container)
    \/ destination_container # source_container

CountersAtFinish ==
    /\ producer_pc \in {"sentinel", "done"} =>
           items_produced = Len(source_container)
    /\ ConsumerStopped => items_consumed = Len(destination_container)
    /\ (producer_pc = "done" /\ consumer_pc = "done") =>
           items_produced = items_consumed

\* C16: once both worker threads have terminated the queue is empty and
\* nothing is outstanding, so the final join() does not block.
ChannelDrained ==
    (producer_pc = "done" /\ consumer_pc = "done") =>
        (shared_queue = <<>> /\ unfinished_tasks = 0)

\* The consumer runs first: it is in get() on the empty queue and the producer
\* has not put anything yet.
ConsumerFirst ==
    /\ consumer_pc = "get"
    /\ shared_queue = <<>>
    /\ unfinished_tasks = 0
    /\ producer_pc \in {"unstarted", "for", "put", "sentinel"}
    /\ producer_idx <= 1
    /\ destination_container = <<>>

\* The producer runs first: it has put a value before the consumer has
\* dequeued anything.
ProducerFirst ==
    /\ consumer_pc = "get"
    /\ shared_queue # <<>>
    /\ unfinished_tasks = Len(shared_queue)
    /\ destination_container = <<>>

\* C17: whichever worker runs first, the run terminates, and it ends with the
\* destination equal to the source and both counters at the source's length.
StartOrderIndependence ==
    /\ ConsumerFirst ~> Completed
    /\ ProducerFirst ~> Completed
    /\ [](Completed =>
            /\ destination_container = source_container
            /\ items_produced = items_consumed
            /\ items_consumed = Len(source_container))

\* C18: the final triple (destination, items_produced, items_consumed) of a
\* completed run is determined by the source alone, so it is the same for
\* every capacity and every interleaving.
CapacityIndependence ==
    Completed =>
        <<destination_container, items_produced, items_consumed>>
            = <<source_container, Len(source_container), Len(source_container)>>

\* C18 witness: a completed run through the largest bounded queue, which
\* never filled up the way a queue of one slot does.
CapacityIndependenceWitness ==
    /\ Completed
    /\ max_queue_size = MaxCapacity
    /\ Len(source_container) >= 2

\* C19: None never appears in the destination, and the sentinel is not
\* counted: items_produced never exceeds the number of source elements taken,
\* items_consumed never exceeds the number of stored items, and each counter
\* has exactly that value once its thread has finished.
SentinelNeverVisible ==
    /\ \A i \in 1..Len(destination_container) : destination_container[i] # None
    /\ items_produced <= producer_idx
    /\ producer_idx <= Len(source_container)
    /\ items_consumed <= Len(destination_container)
    /\ producer_pc = "done" => items_produced = Len(source_container)
    /\ consumer_pc = "done" => items_consumed = Len(destination_container)

\* C19 witness: the consumer has dequeued the sentinel after storing items.
SentinelNeverVisibleWitness ==
    /\ consumer_pc = "sentinel_done"
    /\ producer_pc = "done"
    /\ Len(destination_container) >= 2
    /\ items_consumed = Len(destination_container)

\* C20: no step of any thread changes source_container.
SourceImmutable == [][source_container' = source_container]_vars

\* C20 witness: the producer has iterated over a whole source of several
\* elements and has finished.
SourceImmutableWitness ==
    /\ producer_pc = "done"
    /\ producer_idx = Len(source_container)
    /\ Len(source_container) >= 2
    /\ main_pc = "join_producer"

\* The producer is inside `with self.lock`.
ProducerInCritical == producer_pc \in {"incr", "release"}

\* The consumer is inside `with self.lock`.
ConsumerInCritical == consumer_pc \in {"append", "incr", "release"}

\* items_produced changes only by +1, in a step of the producer that holds
\* the lock before and after it.
ProducedStepDiscipline ==
    items_produced' # items_produced =>
        /\ items_produced' = items_produced + 1
        /\ lock = "producer" /\ lock' = "producer"
        /\ producer_pc # producer_pc'
        /\ consumer_pc' = consumer_pc
        /\ items_consumed' = items_consumed

\* items_consumed changes only by +1, in a step of the consumer that holds
\* the lock before and after it.
ConsumedStepDiscipline ==
    items_consumed' # items_consumed =>
        /\ items_consumed' = items_consumed + 1
        /\ lock = "consumer" /\ lock' = "consumer"
        /\ consumer_pc # consumer_pc'
        /\ producer_pc' = producer_pc
        /\ items_produced' = items_produced

\* C21: the counters never decrease, change only by +1, only in a step of
\* their own worker while it holds the lock, and the two critical sections
\* never overlap.
CounterDiscipline ==
    /\ [][ProducedStepDiscipline]_vars
    /\ [][ConsumedStepDiscipline]_vars
    /\ [](~(ProducerInCritical /\ ConsumerInCritical))
    /\ [](ProducerInCritical => lock = "producer")
    /\ [](ConsumerInCritical => lock = "consumer")

\* C21 witness: the consumer waits for the lock while the producer is about
\* to count an item under it.
CounterDisciplineWitness ==
    /\ lock = "producer"
    /\ producer_pc = "incr"
    /\ consumer_pc = "acquire"

\* A step that is a completed put: the queue grows by one value.
PutStep == Len(shared_queue') = Len(shared_queue) + 1

\* A step that is a completed get: the queue shrinks by one value.
GetStep == Len(shared_queue') = Len(shared_queue) - 1

\* A put completes only below the capacity and appends the producer's value
\* (its item, or None after the loop) at the tail.
PutExact ==
    PutStep =>
        /\ Len(shared_queue) < max_queue_size
        /\ shared_queue' =
               Append(shared_queue,
                      IF producer_pc = "sentinel" THEN None ELSE producer_item)

\* A get completes only on a non-empty queue and removes the head.
GetExact ==
    GetStep =>
        /\ Len(shared_queue) > 0
        /\ consumer_item' = Head(shared_queue)
        /\ shared_queue' = Tail(shared_queue)

\* A worker at a put with a free slot, or at a get with a value buffered, can
\* take its step: it is not suspended.
NotSuspendedNeedlessly ==
    /\ (producer_pc \in {"put", "sentinel"}
           /\ Len(shared_queue) < max_queue_size) => ENABLED Producer
    /\ (consumer_pc = "get" /\ shared_queue # <<>>) => ENABLED Consumer

\* C23: a put completes only while qsize < capacity and appends at the tail, a
\* get completes only while qsize > 0 and removes the head, and neither worker
\* is suspended while its condition holds.
BlockingExact ==
    /\ [][PutExact]_vars
    /\ [][GetExact]_vars
    /\ []NotSuspendedNeedlessly

\* The lock is held only inside the two `with self.lock` blocks, never at a
\* put, a get or anywhere else.
LockOnlyInCritical ==
    /\ lock = "producer" => ProducerInCritical
    /\ lock = "consumer" => ConsumerInCritical
    /\ lock \in {"free", "producer", "consumer"}

\* Whoever holds the lock can take its next step without waiting for anyone.
LockHolderCanStep ==
    /\ lock = "producer" => ENABLED Producer
    /\ lock = "consumer" => ENABLED Consumer

\* C24: no worker holds self.lock while it is at put or get, the holder is
\* never blocked, and a worker waiting for the lock gets it.
NoBlockingUnderLock ==
    /\ []LockOnlyInCritical
    /\ []LockHolderCanStep
    /\ (producer_pc = "acquire") ~> (lock = "producer")
    /\ (consumer_pc = "acquire") ~> (lock = "consumer")

\* C24 witness: the producer is suspended in put on a full queue while the
\* consumer holds the lock.
NoBlockingUnderLockWitness ==
    /\ producer_pc = "put"
    /\ Full(shared_queue, max_queue_size)
    /\ lock = "consumer"

\* A step of the producer thread.
ProducerStep == producer_pc' # producer_pc

\* How a step may change unfinished_tasks: a put raises it by one, a get
\* leaves it alone, and it falls only by one, in a task_done() of the
\* consumer that changes nothing else of the queue.
OutstandingWorkSteps ==
    /\ PutStep => (unfinished_tasks' = unfinished_tasks + 1 /\ ProducerStep)
    /\ GetStep => unfinished_tasks' = unfinished_tasks
    /\ unfinished_tasks' > unfinished_tasks => PutStep
    /\ unfinished_tasks' < unfinished_tasks =>
           /\ unfinished_tasks' = unfinished_tasks - 1
           /\ consumer_pc \in {"task_done", "sentinel_done"}
           /\ consumer_pc' # consumer_pc
           /\ ~ProducerStep
           /\ shared_queue' = shared_queue

\* C25: every completed put raises unfinished_tasks by exactly one, a get
\* leaves it unchanged, and only the consumer's task_done() lowers it, by one;
\* the producer never acknowledges.
OutstandingWorkWriters == [][OutstandingWorkSteps]_vars

\* C25 witness: two values are outstanding, one buffered and one held by the
\* consumer that is about to acknowledge it.
OutstandingWorkWritersWitness ==
    /\ unfinished_tasks = 2
    /\ Len(shared_queue) = 1
    /\ consumer_pc = "task_done"

\* Number of source elements the producer has enqueued so far.
RealItemsEnqueued == producer_idx - (IF producer_pc = "put" THEN 1 ELSE 0)

\* C26: with a capacity >= 1 the producer is never more than capacity + 1
\* items ahead of the destination.
BackpressureBound ==
    max_queue_size >= 1 =>
        RealItemsEnqueued - Len(destination_container) <= max_queue_size + 1

\* C26 witness: the bound is attained with a queue of one slot: one item
\* buffered, one held by the consumer, the producer waiting in put.
BackpressureBoundWitness ==
    /\ max_queue_size = 1
    /\ RealItemsEnqueued - Len(destination_container) = 2
    /\ producer_pc = "put"
    /\ consumer_pc \in {"check", "acquire", "append"}

\* The source holds no None.
SourceWithoutNone ==
    \A i \in 1..Len(source_container) : source_container[i] # None

\* C27: for a source without None the consumer does not leave its loop before
\* the producer has enqueued its sentinel: it is never stopped while the
\* producer waits in put or has values left.
ConsumerOutlivesProducer ==
    (SourceWithoutNone /\ ConsumerStopped) => producer_pc = "done"

\* C27 witness: the consumer has stopped on the sentinel of a source of
\* several items, none of them None.
ConsumerOutlivesProducerWitness ==
    /\ SourceWithoutNone
    /\ ConsumerStopped
    /\ Len(source_container) >= 2
    /\ main_pc = "join_consumer"

\* C28: unfinished_tasks exceeds qsize by one exactly while the consumer holds
\* a value it has not acknowledged, and equals it otherwise; a task_done() is
\* never called on a count of zero.
OutstandingVersusBuffered ==
    /\ unfinished_tasks - Len(shared_queue)
           = (IF ConsumerHoldsUnacknowledged THEN 1 ELSE 0)
    /\ unfinished_tasks >= 0
    /\ consumer_pc \in {"task_done", "sentinel_done"} => unfinished_tasks >= 1

\* C28 witness: the consumer holds an unacknowledged item while the queue is
\* full behind it.
OutstandingVersusBufferedWitness ==
    /\ ConsumerHoldsUnacknowledged
    /\ max_queue_size = 2
    /\ Len(shared_queue) = 2
    /\ unfinished_tasks = 3

\* C29: mid-run the consumer is at most one count ahead of the producer, and
\* items_produced lags the number of enqueued source elements by at most one.
CounterSkew ==
    /\ items_consumed <= items_produced + 1
    /\ items_produced <= RealItemsEnqueued
    /\ RealItemsEnqueued <= items_produced + 1

\* C29 witness: the consumer has counted an item the producer has not counted
\* yet.
CounterSkewWitness ==
    /\ items_consumed = items_produced + 1
    /\ producer_pc = "acquire"

\* C30: whenever the consumer does not hold the lock, items_consumed equals
\* the length of the destination.
ConsumedMatchesDestination ==
    lock # "consumer" => items_consumed = Len(destination_container)

\* C30 witness: the producer holds the lock, as an observer would, after the
\* consumer has stored items and while it waits to store another.
ConsumedMatchesDestinationWitness ==
    /\ lock = "producer"
    /\ consumer_pc = "acquire"
    /\ items_consumed >= 1

(***************************************************************************)
(* C22                                                                     *)
(***************************************************************************)

\* The rows of df that the call recorded in `call` asks for.
Matching(df, call) ==
    LET wanted(row) ==
            CASE call.method = "filter_by_category" ->
                     Lower(row.category) = Lower(call.category)
              [] call.method = "filter_by_region" ->
                     Lower(row.region) = Lower(call.region)
              [] call.method = "filter_by_date_range" ->
                     call.start_date <= row.date /\ row.date <= call.end_date
              [] call.method = "filter_by_min_amount" ->
                     row.net_amount >= call.min_amount
              [] call.method = "filter_by_predicate" ->
                     Predicate(call.predicate, row)
    IN  SelectSeq(df, wanted)

\* C22: a filter call never changes the records of the analyzer it is
\* called on; it returns a new analyzer holding exactly the matching
\* records when there are some, and raises ValueError when there are none.
NonMutatingFilters ==
    [][/\ analyzer_df' = analyzer_df
       /\ filter_result' \in {"returned", "ValueError"}
       /\ filter_result' = "returned" =>
              /\ filtered_df' = Matching(analyzer_df, filter_call')
              /\ filtered_df' # <<>>
       /\ filter_result' = "ValueError" =>
              /\ Matching(analyzer_df, filter_call') = <<>>
              /\ filtered_df' = <<>>]_vars

\* A filter returned an analyzer with fewer records than the one it was
\* called on, which still holds all of its own.
NonMutatingFiltersWitness ==
    /\ filter_result = "returned"
    /\ filtered_df # <<>>
    /\ Len(filtered_df) < Len(analyzer_df)

====
